---- MODULE Spec2Model ----
(***************************************************************************)
(* Model of src/src/App.tsx (Go2UML): the extraction function              *)
(* parseGoToMermaid and the generate handler handleGenerate of App.        *)
(*                                                                         *)
(* Text is modelled as a sequence of characters.  A character is the one    *)
(* character string of it ("a", " ", "\t", "\n", "\r", "\f"); a code unit   *)
(* that has no such string is written by its code point, as in "U+00A0".   *)
(* A source text goCode is given by the matches the two global regular     *)
(* expressions find in it: the type blocks (name, keyword, body lines) and *)
(* the receiver bound func headers, plus the text outside them.  Body      *)
(* lines are matched character by character as the three line patterns of  *)
(* the source do.                                                          *)
(***************************************************************************)
EXTENDS Integers, Sequences, FiniteSets, TLC

VARIABLES goCode, isGenerating, error, currentScale, hasDiagram, umlOutput,
          mounted, runs, entities, relationships, mermaidSyntax, parseStatus,
          crashed

vars == <<goCode, isGenerating, error, currentScale, hasDiagram, umlOutput,
          mounted, runs, entities, relationships, mermaidSyntax, parseStatus,
          crashed>>

(***************************************************************************)
(* Characters and the character classes of the patterns.                   *)
(***************************************************************************)
Lower == <<"a","b","c","d","e","f","g","h","i","j","k","l","m",
           "n","o","p","q","r","s","t","u","v","w","x","y","z">>

Upper == <<"A","B","C","D","E","F","G","H","I","J","K","L","M",
           "N","O","P","Q","R","S","T","U","V","W","X","Y","Z">>

Digits == {"0","1","2","3","4","5","6","7","8","9"}

Range(s) == { s[i] : i \in DOMAIN s }

\* \w
WordChars == Range(Lower) \cup Range(Upper) \cup Digits \cup {"_"}

\* \s, which is also the white space and the line terminators trim strips
SpaceChars ==
  { " ", "\t", "\n", "\r", "\f", "U+000B", "U+00A0", "U+1680",
    "U+2000", "U+2001", "U+2002", "U+2003", "U+2004", "U+2005", "U+2006",
    "U+2007", "U+2008", "U+2009", "U+200A", "U+2028", "U+2029", "U+202F",
    "U+205F", "U+3000", "U+FEFF" }

\* the characters "." does not match
LineTerminators == { "\n", "\r", "U+2028", "U+2029" }

\* [\w\.\*\[\]]
TypeChars == WordChars \cup {".", "*", "[", "]"}

\* String.prototype.toUpperCase on one character
toUpperCase(c) ==
  IF \E i \in DOMAIN Lower : Lower[i] = c
  THEN Upper[CHOOSE i \in DOMAIN Lower : Lower[i] = c]
  ELSE c

\* length of the longest run of characters of class C in s from position from
\* F(x), for a value x that F uses several times: a const of the source
With(x, F(_)) == CHOOSE y \in { F(v) : v \in {x} } : TRUE

RECURSIVE RunLen(_, _, _)
RunLen(s, from, C) ==
  IF from > Len(s) \/ s[from] \notin C THEN 0 ELSE 1 + RunLen(s, from + 1, C)

\* length of the lazy match of .*? in s from position from: it ends before
\* the first ")" and cannot pass a line terminator
RECURSIVE LazyLen(_, _)
LazyLen(s, from) ==
  IF from > Len(s) \/ s[from] = ")" \/ s[from] \in LineTerminators THEN 0
  ELSE 1 + LazyLen(s, from + 1)

\* length of the greedy match of .* in s from position from
RECURSIVE DotLen(_, _)
DotLen(s, from) ==
  IF from > Len(s) \/ s[from] \in LineTerminators THEN 0
  ELSE 1 + DotLen(s, from + 1)

RECURSIVE TrailLen(_, _)
TrailLen(s, to) ==
  IF to < 1 \/ s[to] \notin SpaceChars THEN 0 ELSE 1 + TrailLen(s, to - 1)

\* String.prototype.trim
trim(s) ==
  With(s, LAMBDA t :
    With(RunLen(t, 1, SpaceChars), LAMBDA a :
      IF a = Len(t) THEN <<>>
      ELSE SubSeq(t, a + 1, Len(t) - TrailLen(t, Len(t)))))

NoMatch == [ok |-> FALSE]

\* trimmed.match(/^(\w+)$/)
embeddedMatch(trimmed) ==
  IF Len(trimmed) > 0 /\ RunLen(trimmed, 1, WordChars) = Len(trimmed)
  THEN [ok |-> TRUE, name |-> trimmed]
  ELSE NoMatch

\* trimmed.match(/^(\w+)\s+([\w\.\*\[\]]+)/)
fieldMatch(trimmed) ==
  LET n == RunLen(trimmed, 1, WordChars)
      k == RunLen(trimmed, n + 1, SpaceChars)
      t == RunLen(trimmed, n + k + 1, TypeChars)
  IN  IF n > 0 /\ k > 0 /\ t > 0
      THEN [ok |-> TRUE, name |-> SubSeq(trimmed, 1, n),
            type |-> SubSeq(trimmed, n + k + 1, n + k + t)]
      ELSE NoMatch

\* trimmed.match(/^(\w+)\((.*?)\)\s*(.*)/), group 3 trimmed: n is the
\* length of group 1, close the place of the ")" after group 2 and from
\* the place where group 3 starts, after the white space \s* takes
methodMatch(trimmed) ==
  With(RunLen(trimmed, 1, WordChars), LAMBDA n :
    With(n + 2 + LazyLen(trimmed, n + 2), LAMBDA close :
      With(close + 1 + RunLen(trimmed, close + 1, SpaceChars), LAMBDA from :
        IF n > 0 /\ n + 1 <= Len(trimmed) /\ trimmed[n + 1] = "("
           /\ close <= Len(trimmed) /\ trimmed[close] = ")"
        THEN [ok |-> TRUE, name |-> SubSeq(trimmed, 1, n),
              params |-> SubSeq(trimmed, n + 2, close - 1),
              returns |-> trim(SubSeq(trimmed, from,
                                      from + DotLen(trimmed, from) - 1))]
        ELSE NoMatch)))

(***************************************************************************)
(* parseGoToMermaid: the entity table and the relationship set.            *)
(***************************************************************************)
\* The property names every object literal inherits: entities[name] is
\* truthy for them although the table has no such entry of its own.
ObjectPrototypeKeys ==
  { <<"c","o","n","s","t","r","u","c","t","o","r">>,
    <<"t","o","S","t","r","i","n","g">>,
    <<"v","a","l","u","e","O","f">>,
    <<"h","a","s","O","w","n","P","r","o","p","e","r","t","y">>,
    <<"i","s","P","r","o","t","o","t","y","p","e","O","f">>,
    <<"p","r","o","p","e","r","t","y","I","s","E","n","u","m","e","r","a","b","l","e">>,
    <<"t","o","L","o","c","a","l","e","S","t","r","i","n","g">>,
    <<"_","_","p","r","o","t","o","_","_">>,
    <<"_","_","d","e","f","i","n","e","G","e","t","t","e","r","_","_">>,
    <<"_","_","d","e","f","i","n","e","S","e","t","t","e","r","_","_">>,
    <<"_","_","l","o","o","k","u","p","G","e","t","t","e","r","_","_">>,
    <<"_","_","l","o","o","k","u","p","S","e","t","t","e","r","_","_">> }

\* position of the entity called name in the table E, 0 when it has none
IndexOf(E, name) ==
  IF \E i \in DOMAIN E : E[i].name = name
  THEN CHOOSE i \in DOMAIN E : E[i].name = name
  ELSE 0

\* entities[name] is truthy
Truthy(E, name) == IndexOf(E, name) # 0 \/ name \in ObjectPrototypeKeys

\* getEntity: the table after the call (the record is E[IndexOf(E, name)];
\* for an inherited property the call returns that property, not a record)
getEntity(E, name, type) ==
  IF Truthy(E, name) THEN E
  ELSE Append(E, [name |-> name, type |-> type, fields |-> <<>>,
                  methods |-> <<>>, embedded |-> <<>>])

\* Set.prototype.add on a set kept in insertion order
SetAdd(rels, edge) ==
  IF edge \in Range(rels) THEN rels ELSE Append(rels, edge)

CompositionArrow == <<" ","<","|","-","-"," ">>

SatisfactionArrow == <<" ","<","|",".","."," ">>

\* what a .push on a property of an inherited (non-record) value throws
PushTypeError == "Cannot read properties of undefined (reading 'push')"

Thrown(st, msg) == [st EXCEPT !.threw = TRUE, !.message = msg]

\* the body of lines.forEach for one line of the block  type name type { },
\* trimmed being line.trim()
ClassifyTrimmed(st, name, type, trimmed) ==
  LET i == IndexOf(st.entities, name)
      em == embeddedMatch(trimmed)
      fm == fieldMatch(trimmed)
      mm == methodMatch(trimmed)
  IN  IF st.threw \/ trimmed = <<>> THEN st
      ELSE IF em.ok THEN
        IF i = 0 THEN Thrown(st, PushTypeError)
        ELSE [st EXCEPT
               !.entities[i].embedded = Append(@, em.name),
               !.relationships = SetAdd(@, em.name \o CompositionArrow \o name)]
      ELSE IF type = "struct" THEN
        IF ~fm.ok THEN st
        ELSE IF i = 0 THEN Thrown(st, PushTypeError)
        ELSE [st EXCEPT !.entities[i].fields =
                          Append(@, [name |-> fm.name, type |-> fm.type])]
      ELSE
        IF ~mm.ok THEN st
        ELSE IF i = 0 THEN Thrown(st, PushTypeError)
        ELSE [st EXCEPT !.entities[i].methods =
                          Append(@, [name |-> mm.name, params |-> mm.params,
                                     returns |-> mm.returns])]

ClassifyLine(st, name, type, line) ==
  With(trim(line), LAMBDA trimmed : ClassifyTrimmed(st, name, type, trimmed))

RECURSIVE ClassifyLines(_, _, _, _, _)
ClassifyLines(st, name, type, lines, k) ==
  IF k > Len(lines) THEN st
  ELSE With(ClassifyLine(st, name, type, lines[k]), LAMBDA st1 :
         ClassifyLines(st1, name, type, lines, k + 1))

\* the while loop over the matches of typeRegex
RECURSIVE TypeLoop(_, _, _)
TypeLoop(st, types, k) ==
  IF k > Len(types) \/ st.threw THEN st
  ELSE LET m == types[k]
           st1 == [st EXCEPT !.entities = getEntity(@, m.name, m.type)]
       IN  With(ClassifyLines(st1, m.name, m.type, m.body, 1), LAMBDA st2 :
             TypeLoop(st2, types, k + 1))

\* receiverType.replace('*', '')
cleanReceiver(receiverType) ==
  IF \E i \in DOMAIN receiverType : receiverType[i] = "*"
  THEN LET i == CHOOSE j \in DOMAIN receiverType :
                  /\ receiverType[j] = "*"
                  /\ \A h \in 1..(j - 1) : receiverType[h] # "*"
       IN  SubSeq(receiverType, 1, i - 1) \o SubSeq(receiverType, i + 1, Len(receiverType))
  ELSE receiverType

\* the while loop over the matches of methodRegex
RECURSIVE MethodLoop(_, _, _)
MethodLoop(st, funcs, k) ==
  IF k > Len(funcs) \/ st.threw THEN st
  ELSE LET m == funcs[k]
           r == cleanReceiver(m.receiverType)
           E == getEntity(st.entities, r, "class")
           i == IndexOf(E, r)
       IN  IF i = 0 THEN Thrown([st EXCEPT !.entities = E], PushTypeError)
           ELSE With([st EXCEPT !.entities =
                        [E EXCEPT ![i].methods =
                           Append(@, [name |-> m.methodName, params |-> m.params,
                                      returns |-> trim(m.returns)])]],
                     LAMBDA st1 : MethodLoop(st1, funcs, k + 1))

\* the value of a decimal digit
DigitValue(c) ==
  CHOOSE d \in 0..9 :
    c = <<"0","1","2","3","4","5","6","7","8","9">>[d + 1]

\* a < b for two numerals of the same length
RECURSIVE LexLess(_, _, _)
LexLess(a, b, k) ==
  /\ k <= Len(a)
  /\ \/ DigitValue(a[k]) < DigitValue(b[k])
     \/ a[k] = b[k] /\ LexLess(a, b, k + 1)

\* a < b for two numerals with no leading zero
NumLess(a, b) ==
  Len(a) < Len(b) \/ (Len(a) = Len(b) /\ LexLess(a, b, 1))

\* 2^32 - 2, the largest array index
MaxArrayIndex == <<"4","2","9","4","9","6","7","2","9","4">>

\* the property key name is an array index: the numeral of an integer of
\* 0 .. 2^32 - 2, with no leading zero
IsArrayIndex(name) ==
  /\ Len(name) > 0
  /\ \A k \in DOMAIN name : name[k] \in Digits
  /\ Len(name) = 1 \/ name[1] # "0"
  /\ name = MaxArrayIndex \/ NumLess(name, MaxArrayIndex)

\* the entities of S, a set of entities with array index names, in
\* ascending order of the index
RECURSIVE Ascending(_)
Ascending(S) ==
  IF S = {} THEN <<>>
  ELSE LET least == CHOOSE e \in S : \A f \in S \ {e} : NumLess(e.name, f.name)
       IN  <<least>> \o Ascending(S \ {least})

\* Object.values(entities) of the table E kept in insertion order: the
\* entities named by an array index first, in ascending order of the index,
\* then the others in insertion order
ObjectValues(E) ==
  Ascending({ E[k] : k \in { j \in DOMAIN E : IsArrayIndex(E[j].name) } })
  \o SelectSeq(E, LAMBDA e : ~IsArrayIndex(e.name))

\* iface.methods.every(im => cls.methods.some(cm => cm.name === im.name))
implementsAll(iface, cls) ==
  \A a \in DOMAIN iface.methods :
    \E b \in DOMAIN cls.methods : cls.methods[b].name = iface.methods[a].name

\* the entity kinds the two filters of the satisfaction loops select
IsIfaceType(type) == type = "interface"

IsClsType(type) == type = "class"

\* the nested forEach over the interface entities and the class entities,
\* walked as the pairs (a, b) of positions in E, the Object.values of the
\* table, in row order
RECURSIVE SatisfactionLoop(_, _, _, _)
SatisfactionLoop(E, rels, a, b) ==
  IF a > Len(E) THEN rels
  ELSE IF b > Len(E) THEN SatisfactionLoop(E, rels, a + 1, 1)
  ELSE IF IsIfaceType(E[a].type) /\ IsClsType(E[b].type) /\ implementsAll(E[a], E[b])
       THEN SatisfactionLoop(E, SetAdd(rels, E[a].name \o SatisfactionArrow \o E[b].name),
                             a, b + 1)
       ELSE SatisfactionLoop(E, rels, a, b + 1)

\* name[0] === name[0].toUpperCase() ? '+' : '-'
visibility(name) == IF name[1] = toUpperCase(name[1]) THEN "+" ELSE "-"

Indent == <<" "," "," "," ">>

fieldLine(f) == Indent \o <<visibility(f.name)>> \o f.name \o <<":", " ">> \o f.type

methodLine(m) ==
  Indent \o <<visibility(m.name)>> \o m.name \o <<"(">> \o m.params \o <<")", " ">> \o m.returns

classOpen(name) == <<"c","l","a","s","s"," ">> \o name \o <<" ", "{">>

InterfaceMarker == Indent \o <<"<","<","I","n","t","e","r","f","a","c","e",">",">">>

classClose == <<"}">>

\* the lines one entity contributes to mermaidString
entityBlock(e) ==
  <<classOpen(e.name)>>
  \o (IF e.type = "interface" THEN <<InterfaceMarker>> ELSE <<>>)
  \o [i \in 1..Len(e.fields) |-> fieldLine(e.fields[i])]
  \o [i \in 1..Len(e.methods) |-> methodLine(e.methods[i])]
  \o <<classClose>>

RECURSIVE entityBlocks(_, _)
entityBlocks(E, k) ==
  IF k > Len(E) THEN <<>> ELSE entityBlock(E[k]) \o entityBlocks(E, k + 1)

\* parseGoToMermaid(code): threw tells whether the call threw (message is
\* then the error's message); otherwise mermaidString is the returned text,
\* as the sequence of its lines, and entities and relationships are the
\* table, as Object.values lists it, and the set at the return.
parseGoToMermaid(code) ==
  LET st0 == [entities |-> <<>>, relationships |-> <<>>, threw |-> FALSE, message |-> ""]
  IN  With(TypeLoop(st0, code.types, 1), LAMBDA st1 :
        With(MethodLoop(st1, code.funcs, 1), LAMBDA st2 :
          With(ObjectValues(st2.entities), LAMBDA values :
            IF st2.threw
            THEN [threw |-> TRUE, message |-> st2.message, entities |-> values,
                  relationships |-> st2.relationships, mermaidString |-> <<>>]
            ELSE With(SatisfactionLoop(values, st2.relationships, 1, 1),
                      LAMBDA rels :
                   [threw |-> FALSE, message |-> "", entities |-> values,
                    relationships |-> rels,
                    mermaidString |-> entityBlocks(values, 1) \o rels]))))

(***************************************************************************)
(* Source texts.  A text is the record of what the two global patterns     *)
(* find in cleanCode, the text with its comments removed:                  *)
(*   types   the matches of typeRegex in order: name, keyword and the      *)
(*           lines body.trim().split(/\r?\n/) of the body;                 *)
(*   funcs   the matches of methodRegex in order: the four groups;         *)
(*   outside the rest of the text as typed, its comments included (the     *)
(*           blank test of handleGenerate reads the text as typed).        *)
(***************************************************************************)
\* the initial text of the input area
DEFAULT_GO_CODE ==
  [outside |-> <<"p","a","c","k","a","g","e"," ","m","a","i","n"," ","r","e","t","u","r","n"," ","0",","," ","n","i","l"," ","}"," ","r","e","t","u","r","n"," ","0",","," ","n","i","l"," ","}">>,
   types |-> <<
      [name |-> <<"R","e","a","d","e","r">>, type |-> "interface",
       body |-> <<<<"R","e","a","d","(","p"," ","[","]","b","y","t","e",")"," ","(","n"," ","i","n","t",","," ","e","r","r"," ","e","r","r","o","r",")">>>>],
      [name |-> <<"W","r","i","t","e","r">>, type |-> "interface",
       body |-> <<<<"W","r","i","t","e","(","p"," ","[","]","b","y","t","e",")"," ","(","n"," ","i","n","t",","," ","e","r","r"," ","e","r","r","o","r",")">>>>],
      [name |-> <<"R","e","a","d","W","r","i","t","e","r">>, type |-> "interface",
       body |-> <<<<"R","e","a","d","e","r">>,
                  <<" "," "," "," ","W","r","i","t","e","r">>>>],
      [name |-> <<"F","i","l","e">>, type |-> "struct",
       body |-> <<<<"n","a","m","e"," ","s","t","r","i","n","g">>,
                  <<" "," "," "," ","c","o","n","t","e","n","t"," ","[","]","b","y","t","e">>>>]>>,
   funcs |-> <<
      [receiverType |-> <<"*","F","i","l","e">>, methodName |-> <<"R","e","a","d">>,
       params |-> <<"p"," ","[","]","b","y","t","e">>, returns |-> <<"(","n"," ","i","n","t",","," ","e","r","r"," ","e","r","r","o","r",")">>],
      [receiverType |-> <<"*","F","i","l","e">>, methodName |-> <<"W","r","i","t","e">>,
       params |-> <<"p"," ","[","]","b","y","t","e">>, returns |-> <<"(","n"," ","i","n","t",","," ","e","r","r"," ","e","r","r","o","r",")">>]>>]

\* type Animal interface { Speak() string }
\* type Dog struct { Name string }
\* func (d *Dog) Speak() string {
AnimalDogCode ==
  [outside |-> <<"}">>,
   types |-> <<
      [name |-> <<"A","n","i","m","a","l">>, type |-> "interface",
       body |-> <<<<"S","p","e","a","k","(",")"," ","s","t","r","i","n","g">>>>],
      [name |-> <<"D","o","g">>, type |-> "struct",
       body |-> <<<<"N","a","m","e"," ","s","t","r","i","n","g">>>>]>>,
   funcs |-> <<
      [receiverType |-> <<"*","D","o","g">>, methodName |-> <<"S","p","e","a","k">>,
       params |-> <<>>, returns |-> <<"s","t","r","i","n","g">>]>>]

\* type B struct { A \n Extra int }
EmbedCode ==
  [outside |-> <<>>,
   types |-> <<
      [name |-> <<"B">>, type |-> "struct",
       body |-> <<<<"A"," ">>,
                  <<" ","E","x","t","r","a"," ","i","n","t">>>>]>>,
   funcs |-> <<>>]

\* type B struct { *A }
StarEmbedCode ==
  [outside |-> <<>>,
   types |-> <<
      [name |-> <<"B">>, type |-> "struct",
       body |-> <<<<"*","A">>>>]>>,
   funcs |-> <<>>]

\* interface I {A, B}; declared structs X with A, B, C and Y with A
TwoMethodsCode ==
  [outside |-> <<>>,
   types |-> <<
      [name |-> <<"I">>, type |-> "interface",
       body |-> <<<<"A","(",")">>,
                  <<" ","B","(",")">>>>],
      [name |-> <<"X">>, type |-> "struct",
       body |-> <<<<>>>>],
      [name |-> <<"Y">>, type |-> "struct",
       body |-> <<<<>>>>]>>,
   funcs |-> <<
      [receiverType |-> <<"X">>, methodName |-> <<"A">>,
       params |-> <<>>, returns |-> <<>>],
      [receiverType |-> <<"X">>, methodName |-> <<"B">>,
       params |-> <<>>, returns |-> <<>>],
      [receiverType |-> <<"X">>, methodName |-> <<"C">>,
       params |-> <<>>, returns |-> <<>>],
      [receiverType |-> <<"Y">>, methodName |-> <<"A">>,
       params |-> <<>>, returns |-> <<>>]>>]

\* interface I {A, B}; undeclared receivers X with A, B and Y with A
PlaceholderCode ==
  [outside |-> <<>>,
   types |-> <<
      [name |-> <<"I">>, type |-> "interface",
       body |-> <<<<"A","(",")">>,
                  <<" ","B","(",")">>>>]>>,
   funcs |-> <<
      [receiverType |-> <<"X">>, methodName |-> <<"A">>,
       params |-> <<>>, returns |-> <<>>],
      [receiverType |-> <<"X">>, methodName |-> <<"B">>,
       params |-> <<>>, returns |-> <<>>],
      [receiverType |-> <<"Y">>, methodName |-> <<"A">>,
       params |-> <<>>, returns |-> <<>>]>>]

\* type E interface {} and an undeclared receiver Dog
EmptyIfaceCode ==
  [outside |-> <<>>,
   types |-> <<
      [name |-> <<"E">>, type |-> "interface",
       body |-> <<<<>>>>]>>,
   funcs |-> <<
      [receiverType |-> <<"D","o","g">>, methodName |-> <<"S","p","e","a","k">>,
       params |-> <<>>, returns |-> <<"s","t","r","i","n","g">>]>>]

\* type RW interface { Reader \n Writer } and an undeclared receiver File
EmbedOnlyIfaceCode ==
  [outside |-> <<>>,
   types |-> <<
      [name |-> <<"R","W">>, type |-> "interface",
       body |-> <<<<"R","e","a","d","e","r">>,
                  <<" ","W","r","i","t","e","r">>>>]>>,
   funcs |-> <<
      [receiverType |-> <<"*","F","i","l","e">>, methodName |-> <<"R","e","a","d">>,
       params |-> <<>>, returns |-> <<>>]>>]

\* members whose names start with _, a digit, a lower and an upper case letter
VisibilityCode ==
  [outside |-> <<>>,
   types |-> <<
      [name |-> <<"t">>, type |-> "struct",
       body |-> <<<<"_","x"," ","i","n","t">>,
                  <<" ","9","y"," ","i","n","t">>,
                  <<" ","n","a","m","e"," ","s","t","r","i","n","g">>,
                  <<" ","N","a","m","e"," ","s","t","r","i","n","g">>>>],
      [name |-> <<"i">>, type |-> "interface",
       body |-> <<<<"_","m","(",")">>,
                  <<" ","g","e","t","(",")"," ","i","n","t">>,
                  <<" ","G","e","t","(",")"," ","i","n","t">>>>]>>,
   funcs |-> <<>>]

\* a receiver bound func and no type block
FuncOnlyCode ==
  [outside |-> <<>>,
   types |-> <<>>,
   funcs |-> <<
      [receiverType |-> <<"*","D","o","g">>, methodName |-> <<"S","p","e","a","k">>,
       params |-> <<>>, returns |-> <<"s","t","r","i","n","g">>]>>]

\* a type named as a property every object inherits
ProtoKeyCode ==
  [outside |-> <<>>,
   types |-> <<
      [name |-> <<"c","o","n","s","t","r","u","c","t","o","r">>, type |-> "struct",
       body |-> <<<<"x"," ","i","n","t">>>>]>>,
   funcs |-> <<>>]

\* an embedding line in a type named as a property every object inherits:
\* type constructor struct { A }
ProtoEmbedCode ==
  [outside |-> <<>>,
   types |-> <<
      [name |-> <<"c","o","n","s","t","r","u","c","t","o","r">>, type |-> "struct",
       body |-> <<<<"A">>>>]>>,
   funcs |-> <<>>]

\* text with no declaration at all
PackageOnlyCode ==
  [outside |-> <<"p","a","c","k","a","g","e"," ","m","a","i","n">>,
   types |-> <<>>,
   funcs |-> <<>>]

\* the empty text
EmptyCode ==
  [outside |-> <<>>,
   types |-> <<>>,
   funcs |-> <<>>]

\* a text of white space only
WhitespaceCode ==
  [outside |-> <<" ","\n">>,
   types |-> <<>>,
   funcs |-> <<>>]


\* // nothing
CommentOnlyCode ==
  [outside |-> <<"/","/"," ","n","o","t","h","i","n","g">>,
   types |-> <<>>,
   funcs |-> <<>>]

\* a text of one form feed
FormFeedCode ==
  [outside |-> <<"\f">>,
   types |-> <<>>,
   funcs |-> <<>>]

\* body lines with a form feed, a no-break space (U+00A0) and a lone carriage
\* return (\r), between a first and a last line that body.trim() leaves as typed:
\* type A struct { x int / \fB U+00A0 / n\fint / U+00A0 C U+00A0 / y int }
\* type I interface { L() / M(a\rb) c / N() a\rb / O() }
OddSpaceCode ==
  [outside |-> <<>>,
   types |-> <<
      [name |-> <<"A">>, type |-> "struct",
       body |-> <<<<"x"," ","i","n","t">>,
                  <<"\f","B","U+00A0">>,
                  <<" ","n","\f","i","n","t">>,
                  <<"U+00A0","C","U+00A0">>,
                  <<" ","y"," ","i","n","t">>>>],
      [name |-> <<"I">>, type |-> "interface",
       body |-> <<<<"L","(",")">>,
                  <<" ","M","(","a","\r","b",")"," ","c">>,
                  <<" ","N","(",")"," ","a","\r","b">>,
                  <<" ","O","(",")">>>>]>>,
   funcs |-> <<>>]

\* names that are array indices (10, 7) and one that is not (07):
\* type I interface { M() }
\* type 10 struct {}
\* func (x X) M() {
\* func (y 7) M() {
\* func (z 07) M() {
DigitNameCode ==
  [outside |-> <<>>,
   types |-> <<
      [name |-> <<"I">>, type |-> "interface",
       body |-> <<<<"M","(",")">>>>],
      [name |-> <<"1","0">>, type |-> "struct",
       body |-> <<<<>>>>]>>,
   funcs |-> <<
      [receiverType |-> <<"X">>, methodName |-> <<"M">>,
       params |-> <<>>, returns |-> <<>>],
      [receiverType |-> <<"7">>, methodName |-> <<"M">>,
       params |-> <<>>, returns |-> <<>>],
      [receiverType |-> <<"0","7">>, methodName |-> <<"M">>,
       params |-> <<>>, returns |-> <<>>]>>]

Scenarios ==
  { CommentOnlyCode, FormFeedCode, OddSpaceCode, DigitNameCode, ProtoEmbedCode,
    DEFAULT_GO_CODE, AnimalDogCode, EmbedCode, StarEmbedCode, TwoMethodsCode,
    PlaceholderCode, EmptyIfaceCode, EmbedOnlyIfaceCode, VisibilityCode,
    FuncOnlyCode, ProtoKeyCode, PackageOnlyCode, EmptyCode, WhitespaceCode }

\* bounds of the generated family of texts
MaxTypes == 2

MaxLines == 2

MaxFuncs == 1

RECURSIVE SeqsUpTo(_, _)
SeqsUpTo(S, n) ==
  IF n = 0 THEN { <<>> }
  ELSE LET P == SeqsUpTo(S, n - 1)
       IN  P \cup { Append(p, x) : p \in { q \in P : Len(q) = n - 1 }, x \in S }

FamilyLines == { <<"A">>, <<"M", "(", ")">> }

\* the lines of a body: the one empty line of an empty body, or at most
\* MaxLines lines
FamilyBodies == { <<<<>>>> } \cup (SeqsUpTo(FamilyLines, MaxLines) \ { <<>> })

FamilyTypes ==
  [name : { <<"B">>, <<"C">> }, type : {"struct", "interface"},
   body : FamilyBodies]

FamilyFuncs ==
  { [receiverType |-> <<"B">>, methodName |-> <<"M">>, params |-> <<>>,
     returns |-> <<>>] }

\* every text of at most MaxTypes type blocks of at most MaxLines lines each
\* and at most MaxFuncs receiver bound funcs
Family ==
  [outside : { <<>> }, types : SeqsUpTo(FamilyTypes, MaxTypes),
   funcs : SeqsUpTo(FamilyFuncs, MaxFuncs)]

Inputs == Scenarios \cup Family

\* the texts typed into the input area
EditCodes ==
  { AnimalDogCode, FuncOnlyCode, ProtoKeyCode, PackageOnlyCode, WhitespaceCode,
    CommentOnlyCode, FormFeedCode }

(***************************************************************************)
(* The component App.                                                      *)
(***************************************************************************)
\* the zoom scale in tenths
InitialScale == 10

MinScale == 1

MaxScale == 30

\* bounds: calls of handleGenerate, and zoom steps away from the initial scale
MaxRuns == 4

ZoomSpan == 1

EmptyInputMessage == <<"Please enter some Go code.">>

NoDeclarationsMessage == "Could not parse any structs or interfaces from the code."

\* `Error: ${message}`
ErrorText(message) == <<"Error: ", message>>

\* the messages a failing mermaid.render rejects with
RendererMessages == { "Parse error on line 2", "" }

\* The content of the output element, the element of umlOutputRef: what the
\* last write of innerHTML left (kind, and the run whose svg it is), and
\* whether the placeholder node React renders into the same element is
\* among its children.  A write of innerHTML removes every child.
NoOutput == [kind |-> "none", run |-> 0, placeholder |-> TRUE]

EmptyOutput == [kind |-> "none", run |-> 0, placeholder |-> FALSE]

FailedOutput == [kind |-> "failed", run |-> 0, placeholder |-> FALSE]

SvgOutput(r) == [kind |-> "svg", run |-> r, placeholder |-> FALSE]

\* !hasDiagram && !isGenerating: React keeps the placeholder as a child of
\* the output element, lines 339-343
ShowPlaceholder(has, busy) == ~has /\ ~busy

\* The commit of the render that follows a handler, dom being the output
\* element as the handler left it.  React appends the placeholder when the
\* condition of line 339 became true and removes it when it became false.
\* Removing a node that a write of innerHTML has already taken out of the
\* element throws NotFoundError in the commit; no error boundary is around
\* it, so React unmounts App: crashed, the element gone, every later state
\* update dropped.
Commit(dom) ==
  LET before == ShowPlaceholder(hasDiagram, isGenerating)
      after == ShowPlaceholder(hasDiagram', isGenerating')
  IN  IF before /\ ~after /\ ~dom.placeholder
      THEN /\ crashed' = TRUE
           /\ umlOutput' = EmptyOutput
      ELSE /\ crashed' = crashed
           /\ umlOutput' = IF before = after THEN dom
                            ELSE [dom EXCEPT !.placeholder = after]

\* !goCode.trim()
IsBlank(code) ==
  code.types = <<>> /\ code.funcs = <<>> /\ trim(code.outside) = <<>>

\* `classDiagram\n${mermaidSyntax}`
fullDiagram(mermaidString) == <<<<"c","l","a","s","s","D","i","a","g","r","a","m">>>> \o mermaidString

NoParse ==
  /\ entities = <<>>
  /\ relationships = <<>>
  /\ mermaidSyntax = <<>>
  /\ parseStatus = "none"

Init ==
  /\ goCode = DEFAULT_GO_CODE
  /\ isGenerating = FALSE
  /\ error = <<>>
  /\ currentScale = InitialScale
  /\ hasDiagram = FALSE
  /\ umlOutput = NoOutput
  /\ mounted = FALSE
  /\ runs = <<>>
  /\ crashed = FALSE
  /\ NoParse

\* the call parseGoToMermaid(goCode) and what it leaves
Parsed(p) ==
  /\ entities' = p.entities
  /\ relationships' = p.relationships
  /\ mermaidSyntax' = p.mermaidString
  /\ parseStatus' = IF p.threw THEN "threw" ELSE "returned"

Run(outcome, renders, diagram) ==
  [code |-> goCode, outcome |-> outcome, renders |-> renders, diagram |-> diagram]

\* a blank check placed after the resets of lines 157-159
HandleGenerateEmptyLate ==
  /\ IsBlank(goCode)
  /\ error' = EmptyInputMessage
  /\ isGenerating' = TRUE
  /\ currentScale' = InitialScale
  /\ runs' = Append(runs, Run("EmptyInput", 0, <<>>))
  /\ UNCHANGED <<hasDiagram, umlOutput, entities, relationships, mermaidSyntax,
                 parseStatus, crashed>>

\* handleGenerate, lines 152-155: the input is blank
HandleGenerateEmpty ==
  /\ IsBlank(goCode)
  /\ error' = EmptyInputMessage
  /\ runs' = Append(runs, Run("EmptyInput", 0, <<>>))
  /\ UNCHANGED <<isGenerating, currentScale, hasDiagram, umlOutput,
                 entities, relationships, mermaidSyntax, parseStatus, crashed>>

\* the catch and finally blocks, lines 174-182
Caught(message) ==
  /\ error' = ErrorText(message)
  /\ hasDiagram' = FALSE
  /\ isGenerating' = FALSE
  /\ Commit(FailedOutput)

\* handleGenerate when parseGoToMermaid throws
HandleGenerateThrows ==
  /\ ~IsBlank(goCode)
  /\ \E p \in {parseGoToMermaid(goCode)} :
      /\ p.threw
      /\ Parsed(p)
      /\ currentScale' = InitialScale
      /\ Caught(p.message)
      /\ runs' = Append(runs, Run("Exception", 0, <<>>))

\* handleGenerate when the returned text is empty, lines 163-165
HandleGenerateNoDeclarations ==
  /\ ~IsBlank(goCode)
  /\ \E p \in {parseGoToMermaid(goCode)} :
      /\ ~p.threw
      /\ p.mermaidString = <<>>
      /\ Parsed(p)
      /\ currentScale' = InitialScale
      /\ Caught(NoDeclarationsMessage)
      /\ runs' = Append(runs, Run("NoDeclarationsFound", 0, <<>>))

\* handleGenerate up to the await of mermaid.render, lines 157-168
HandleGenerateRender ==
  /\ ~IsBlank(goCode)
  /\ \E p \in {parseGoToMermaid(goCode)} :
      /\ ~p.threw
      /\ p.mermaidString # <<>>
      /\ Parsed(p)
      /\ error' = <<>>
      /\ isGenerating' = TRUE
      /\ currentScale' = InitialScale
      /\ runs' = Append(runs, Run("rendering", 1, fullDiagram(p.mermaidString)))
      /\ UNCHANGED hasDiagram
      /\ Commit(umlOutput)

handleGenerate ==
  \/ HandleGenerateEmpty
  \/ HandleGenerateThrows
  \/ HandleGenerateNoDeclarations
  \/ HandleGenerateRender

\* the mount effect, lines 41-57
Mount ==
  /\ ~mounted
  /\ ~crashed
  /\ mounted' = TRUE
  /\ handleGenerate
  /\ UNCHANGED goCode

\* disabled={isGenerating}
ButtonDisabled == isGenerating

\* a click on the generate button, lines 304-306
ClickGenerate ==
  /\ mounted
  /\ ~crashed
  /\ ~ButtonDisabled
  /\ Len(runs) < MaxRuns
  /\ handleGenerate
  /\ UNCHANGED <<goCode, mounted>>

\* onChange of the input area, line 297
SetGoCode(code) ==
  /\ mounted
  /\ ~crashed
  /\ goCode' = code
  /\ UNCHANGED <<isGenerating, error, currentScale, hasDiagram, umlOutput, mounted,
                 runs, entities, relationships, mermaidSyntax, parseStatus, crashed>>

\* what is left of a continuation of handleGenerate once App is unmounted:
\* umlOutputRef.current is null and the state setters change nothing
Dropped == UNCHANGED <<error, hasDiagram, isGenerating, umlOutput, crashed>>

\* mermaid.render resolves for run r, lines 168-173 and 180-182
RenderResolve(r) ==
  /\ r \in DOMAIN runs
  /\ runs[r].outcome = "rendering"
  /\ runs' = [runs EXCEPT ![r].outcome = "rendered"]
  /\ IF crashed THEN Dropped
     ELSE /\ hasDiagram' = TRUE
          /\ isGenerating' = FALSE
          /\ Commit(SvgOutput(r))
          /\ UNCHANGED error
  /\ UNCHANGED <<goCode, currentScale, mounted,
                 entities, relationships, mermaidSyntax, parseStatus>>

\* mermaid.render rejects for run r, lines 174-182
RenderReject(r, message) ==
  /\ r \in DOMAIN runs
  /\ runs[r].outcome = "rendering"
  /\ runs' = [runs EXCEPT ![r].outcome = "RenderFailure"]
  /\ IF crashed THEN Dropped ELSE Caught(message)
  /\ UNCHANGED <<goCode, currentScale, mounted,
                 entities, relationships, mermaidSyntax, parseStatus>>

Max(a, b) == IF a > b THEN a ELSE b

Min(a, b) == IF a < b THEN a ELSE b

\* handleZoom(delta), lines 185-191; the buttons are shown when hasDiagram
handleZoom(delta) ==
  LET newScale == Max(MinScale, Min(MaxScale, currentScale + delta))
  IN  /\ hasDiagram
      /\ ~crashed
      /\ newScale - InitialScale \in -ZoomSpan..ZoomSpan
      /\ currentScale' = newScale
      /\ UNCHANGED <<goCode, isGenerating, error, hasDiagram, umlOutput, mounted,
                     runs, entities, relationships, mermaidSyntax, parseStatus,
                     crashed>>

\* resetZoom, lines 193-198
resetZoom ==
  /\ hasDiagram
  /\ ~crashed
  /\ currentScale' = InitialScale
  /\ UNCHANGED <<goCode, isGenerating, error, hasDiagram, umlOutput, mounted,
                 runs, entities, relationships, mermaidSyntax, parseStatus,
                 crashed>>

Next ==
  \/ Mount
  \/ ClickGenerate
  \/ \E code \in EditCodes : SetGoCode(code)
  \/ \E r \in DOMAIN runs : RenderResolve(r)
  \/ \E r \in DOMAIN runs, message \in RendererMessages : RenderReject(r, message)
  \/ \E delta \in {-1, 1} : handleZoom(delta)
  \/ resetZoom

Spec == Init /\ [][Next]_vars

\* mermaid.render settles: every awaited render resolves or rejects
FairSpec ==
  Spec /\ \A r \in 1..MaxRuns :
            WF_vars(RenderResolve(r) \/ \E message \in RendererMessages : RenderReject(r, message))

(***************************************************************************)
(* parseGoToMermaid alone, on every text of Inputs.                        *)
(***************************************************************************)
InitParse ==
  /\ goCode \in Inputs
  /\ isGenerating = FALSE
  /\ error = <<>>
  /\ currentScale = InitialScale
  /\ hasDiagram = FALSE
  /\ umlOutput = NoOutput
  /\ mounted = FALSE
  /\ runs = <<>>
  /\ crashed = FALSE
  /\ NoParse

Extract ==
  /\ parseStatus = "none"
  /\ Parsed(parseGoToMermaid(goCode))
  /\ UNCHANGED <<goCode, isGenerating, error, currentScale, hasDiagram, umlOutput,
                 mounted, runs, crashed>>

ParseSpec == InitParse /\ [][Extract]_vars

(***************************************************************************)
(* Properties.                                                             *)
(***************************************************************************)
Count(s, x) == Cardinality({ i \in DOMAIN s : s[i] = x })

Returned == parseStatus = "returned"

\* parseGoToMermaid has run, whether it returned or threw
Extracted == parseStatus # "none"

\* a line that is one bare identifier
BareIdentifier(line) ==
  LET t == trim(line) IN t # <<>> /\ \A i \in DOMAIN t : t[i] \in WordChars

\* a line that is one identifier behind one dereference marker
StarIdentifier(line) ==
  LET t == trim(line)
  IN  Len(t) > 1 /\ t[1] = "*" /\ \A i \in 2..Len(t) : t[i] \in WordChars

CompositionEdge(embedded, owner) == embedded \o <<" ","<","|","-","-"," ">> \o owner

SatisfactionEdge(contract, aggregate) == contract \o <<" ","<","|",".","."," ">> \o aggregate

IsContract(e) == e.type = "interface"

\* a struct declared with a body, or a placeholder made for a receiver
IsAggregate(e) == e.type \in {"struct", "class"}

MethodNames(e) == { e.methods[i].name : i \in DOMAIN e.methods }

\* C1: after extraction, the output has the edge I <|.. C, for a contract I
\* and an aggregate C, exactly when I has a method and every method name of
\* I is a method name of C.
Claim_C1 ==
  Returned =>
    \A i, c \in DOMAIN entities :
      (IsContract(entities[i]) /\ IsAggregate(entities[c])) =>
        ( SatisfactionEdge(entities[i].name, entities[c].name) \in Range(mermaidSyntax)
          <=> ( MethodNames(entities[i]) # {}
                /\ MethodNames(entities[i]) \subseteq MethodNames(entities[c]) ) )

\* C2: a contract with no method never has a satisfaction edge to an
\* aggregate.
Claim_C2 ==
  Returned =>
    \A i, c \in DOMAIN entities :
      (IsContract(entities[i]) /\ entities[i].methods = <<>> /\ IsAggregate(entities[c])) =>
        SatisfactionEdge(entities[i].name, entities[c].name) \notin Range(mermaidSyntax)

\* C3: after an extraction, for every bare identifier line E in a body of
\* owner O the output has the edge E <|-- O exactly once, however often the
\* line or the block is repeated, and the relationship collection holds no
\* edge twice.
Claim_C3 ==
  /\ Extracted =>
       \A k \in DOMAIN goCode.types : \A l \in DOMAIN goCode.types[k].body :
         BareIdentifier(goCode.types[k].body[l]) =>
           Count(mermaidSyntax,
                 CompositionEdge(trim(goCode.types[k].body[l]), goCode.types[k].name)) = 1
  /\ \A a, b \in DOMAIN relationships : a # b => relationships[a] # relationships[b]

\* a member line of the output: the indent, the marker, the name
IsMemberLine(line) ==
  Len(line) >= 6 /\ SubSeq(line, 1, 4) = <<" "," "," "," ">> /\ line[5] \in {"+", "-"}

\* C4: the marker of every emitted member is + exactly when the first
\* character of the member name is an upper case letter, and - otherwise.
Claim_C4 ==
  Returned =>
    \A i \in DOMAIN mermaidSyntax :
      IsMemberLine(mermaidSyntax[i]) =>
        (mermaidSyntax[i][5] = "+" <=> mermaidSyntax[i][6] \in Range(Upper))

\* C5: a run on a non-blank text without a type block ends in
\* NoDeclarationsFound and never calls the renderer.
Claim_C5 ==
  \A r \in DOMAIN runs :
    (~IsBlank(runs[r].code) /\ runs[r].code.types = <<>>) =>
      (runs[r].outcome = "NoDeclarationsFound" /\ runs[r].renders = 0)

\* handleGenerate is called (by the mount effect or a click)
Called == Len(runs') = Len(runs) + 1

\* C6: a call of handleGenerate on a blank text reports the EmptyInput
\* message and stops: no extraction, no render, and the busy flag, the zoom
\* scale, the has-diagram flag and the shown artifact stay as they were.
Thm_C6 ==
  [][ (Called /\ IsBlank(goCode)) =>
        /\ error' = <<"Please enter some Go code.">>
        /\ runs'[Len(runs')].outcome = "EmptyInput"
        /\ runs'[Len(runs')].renders = 0
        /\ UNCHANGED <<isGenerating, currentScale, hasDiagram, umlOutput,
                       entities, relationships, mermaidSyntax, parseStatus,
                       crashed>> ]_vars

\* a blank run ended while a diagram was shown at a changed zoom scale
Witness_C6 ==
  /\ runs # <<>>
  /\ runs[Len(runs)].outcome = "EmptyInput"
  /\ error = <<"Please enter some Go code.">>
  /\ currentScale # InitialScale
  /\ hasDiagram
  /\ umlOutput.kind = "svg"

Failed(outcome) ==
  outcome \in {"EmptyInput", "NoDeclarationsFound", "RenderFailure", "Exception"}

Awaiting(r) == r \in DOMAIN runs /\ runs[r].outcome = "rendering"

Over(r) == r \in DOMAIN runs /\ runs[r].outcome # "rendering"

\* run r ends in this step
Ends(r) ==
  /\ r \in DOMAIN runs'
  /\ runs'[r].outcome # "rendering"
  /\ r \in DOMAIN runs => runs[r].outcome = "rendering"

NonEmpty(text) == \E i \in DOMAIN text : text[i] # ""

\* C7: every run ends; a failing run ends with a non-empty error message
\* that is shown; the renderer is called at most once per run; a run that
\* was busy ends with the busy flag false.
Claim_C7 ==
  /\ [][ \A r \in DOMAIN runs' :
           Ends(r) =>
             /\ Failed(runs'[r].outcome) => (NonEmpty(error') /\ ~crashed')
             /\ runs'[r].outcome # "EmptyInput" => ~isGenerating' ]_vars
  /\ [](\A r \in DOMAIN runs : runs[r].renders <= 1)
  /\ \A r \in 1..MaxRuns : Awaiting(r) ~> Over(r)

\* the names a text refers to as an embedding target, as the owner of an
\* embedding line, or as a method receiver
Referenced ==
  UNION { UNION { IF BareIdentifier(goCode.types[k].body[l])
                  THEN { trim(goCode.types[k].body[l]), goCode.types[k].name }
                  ELSE {} : l \in DOMAIN goCode.types[k].body }
          : k \in DOMAIN goCode.types }
  \cup { cleanReceiver(goCode.funcs[k].receiverType) : k \in DOMAIN goCode.funcs }

Declared == { goCode.types[k].name : k \in DOMAIN goCode.types }

\* C8: after extraction every referenced name has exactly one entity record
\* and one class block, and a name never declared with a body has a
\* placeholder of aggregate kind without fields.
Claim_C8 ==
  Returned =>
    \A name \in Referenced :
      /\ Cardinality({ i \in DOMAIN entities : entities[i].name = name }) = 1
      /\ Count(mermaidSyntax, <<"c","l","a","s","s"," ">> \o name \o <<" ","{">>) = 1
      /\ name \notin Declared =>
           \A i \in DOMAIN entities :
             entities[i].name = name =>
               IsAggregate(entities[i]) /\ entities[i].fields = <<>>

\* C9: of two runs whose renders both succeeded, the shown artifact is never
\* the one of the run started first, and it is the one of the run started
\* second when that is the latest run.
Claim_C9 ==
  \A a, b \in DOMAIN runs :
    (a < b /\ runs[a].outcome = "rendered" /\ runs[b].outcome = "rendered") =>
      /\ umlOutput # SvgOutput(a)
      /\ b = Len(runs) => umlOutput = SvgOutput(b)

\* C10: a body line *E is an embedding reference like E: E is added to the
\* owner's embeds and the edge E <|-- Owner is recorded.
Claim_C10 ==
  Returned =>
    \A k \in DOMAIN goCode.types : \A l \in DOMAIN goCode.types[k].body :
      StarIdentifier(goCode.types[k].body[l]) =>
        LET E == Tail(trim(goCode.types[k].body[l]))
            O == goCode.types[k].name
        IN  /\ CompositionEdge(E, O) \in Range(relationships)
            /\ \E i \in DOMAIN entities :
                 entities[i].name = O /\ E \in Range(entities[i].embedded)

====
